---- MODULE Spec2Model ----
(***************************************************************************)
(* Model of the double-pendulum engine (src/src/core/mod.rs, core/util.rs). *)
(*                                                                         *)
(* Numbers.  The program computes in f64.  The model computes in a         *)
(* fixed-point format: an integer v stands for the real v / SCALE, every   *)
(* product and quotient is rounded to the nearest unit, a result whose     *)
(* magnitude exceeds MAXF becomes an infinity, and the three non-finite    *)
(* values of f64 (+inf, -inf, NaN) are kept as three reserved integers     *)
(* with the IEEE-754 rules for them.  sin and cos are Bhaskara's rational  *)
(* approximation, exact at the multiples of PI.  There is no negative      *)
(* zero.                                                                   *)
(***************************************************************************)
EXTENDS Integers, Sequences, FiniteSets, TLC

\* ------------------------------------------------------------ f64 values
\* Units per 1.0.
SCALE == 100
\* Largest finite magnitude (in units).
MAXF == 400000

PosInf == MAXF + 1
NegInf == -(MAXF + 1)
NaN == MAXF + 2

IsNaN(x) == x = NaN
IsInf(x) == x = PosInf \/ x = NegInf
IsFinite(x) == (-MAXF <= x) /\ (x <= MAXF)

Abs(v) == IF v < 0 THEN -v ELSE v
Sgn(v) == IF v < 0 THEN -1 ELSE 1

\* Rounding of an exact result to the format: overflow gives an infinity.
Sat(v) == IF v > MAXF THEN PosInf ELSE IF v < -MAXF THEN NegInf ELSE v

FNeg(x) == IF IsNaN(x) THEN NaN ELSE -x

FAbs(x) == IF IsNaN(x) THEN NaN ELSE Abs(x)

FAdd(a, b) ==
    IF IsNaN(a) \/ IsNaN(b) THEN NaN
    ELSE IF IsInf(a) THEN (IF IsInf(b) /\ b # a THEN NaN ELSE a)
    ELSE IF IsInf(b) THEN b
    ELSE Sat(a + b)

FSub(a, b) == FAdd(a, FNeg(b))

\* |a| * |b| / SCALE rounded to nearest, for finite a and b, computed in two
\* parts so that no intermediate exceeds the 32-bit range.
MulMag(a, b) ==
    LET x == Abs(a)
        y == Abs(b)
    IN  (x \div SCALE) * y + (((x % SCALE) * y + (SCALE \div 2)) \div SCALE)

FMul(a, b) ==
    IF IsNaN(a) \/ IsNaN(b) THEN NaN
    ELSE IF IsInf(a) \/ IsInf(b)
         THEN (IF a = 0 \/ b = 0 THEN NaN
               ELSE IF Sgn(a) * Sgn(b) > 0 THEN PosInf ELSE NegInf)
    ELSE Sat(Sgn(a) * Sgn(b) * MulMag(a, b))

FDiv(a, b) ==
    IF IsNaN(a) \/ IsNaN(b) THEN NaN
    ELSE IF IsInf(a)
         THEN (IF IsInf(b) THEN NaN
               ELSE IF Sgn(a) * Sgn(b) > 0 THEN PosInf ELSE NegInf)
    ELSE IF IsInf(b) THEN 0
    ELSE IF b = 0
         THEN (IF a = 0 THEN NaN ELSE IF a > 0 THEN PosInf ELSE NegInf)
    ELSE Sat(Sgn(a) * Sgn(b) * ((Abs(a) * SCALE + (Abs(b) \div 2)) \div Abs(b)))

\* The % of f64 (fmod): exact, with the sign of the dividend.
FRem(a, m) ==
    IF IsNaN(a) \/ IsNaN(m) \/ IsInf(a) \/ m = 0 THEN NaN
    ELSE IF IsInf(m) THEN a
    ELSE Sgn(a) * (Abs(a) % Abs(m))

\* Comparisons: every comparison with NaN is false.
FGt(a, b) == ~IsNaN(a) /\ ~IsNaN(b) /\ a > b
FLt(a, b) == ~IsNaN(a) /\ ~IsNaN(b) /\ a < b
FGe(a, b) == ~IsNaN(a) /\ ~IsNaN(b) /\ a >= b
FLe(a, b) == ~IsNaN(a) /\ ~IsNaN(b) /\ a <= b

\* std::f64::consts::PI and the constants of core/util.rs.
PI == (355 * SCALE) \div 113
GRAVITY == 100 * SCALE
TWO_PI == FMul(2 * SCALE, PI)

\* sin and cos take the number their argument stands for, v / SCALE, and
\* reduce it by pi itself: the argument is carried in units of
\* 1 / (SCALE * FINE), in which pi is PI_FINE.
FINE == 1000
PI_FINE == (355 * SCALE * FINE) \div 113

\* sin on [0, pi], the argument in units of 1 / (SCALE * FINE) and the value
\* rounded to units of 1 / SCALE: 4 u (P - u) / (5 P^2 / 4 - u (P - u)), with
\* u and P a tenth of the argument and of PI_FINE to stay within 32 bits.
SinHalf(y) ==
    LET P == PI_FINE \div 10
        u == y \div 10
        p == u * (P - u)
        d == (5 * ((P * P) \div 4) - p) \div SCALE
    IN  (8 * p + d) \div (2 * d)

\* sin of an argument in units of 1 / (SCALE * FINE).
SinFine(y) ==
    LET r == y % (2 * PI_FINE)
    IN  IF r <= PI_FINE THEN SinHalf(r) ELSE -SinHalf(r - PI_FINE)

FSin(x) == IF ~IsFinite(x) THEN NaN ELSE SinFine(x * FINE)

\* cos(x) = sin(x + pi / 2), finite for every finite x.
FCos(x) == IF ~IsFinite(x) THEN NaN ELSE SinFine(x * FINE + (PI_FINE \div 2))

\* ------------------------------------------------------------ core/util.rs
\* Faulty variants of normalize_angle: without the correction below -PI, and
\* without either correction.
normalize_angle_no_lower(angle) ==
    LET r0 == FRem(angle, TWO_PI)
    IN  IF FGt(r0, PI) THEN FSub(r0, TWO_PI) ELSE r0

normalize_angle_rem_only(angle) == FRem(angle, TWO_PI)

normalize_angle(angle) ==
    LET r0 == FRem(angle, TWO_PI)
        r1 == IF FGt(r0, PI) THEN FSub(r0, TWO_PI) ELSE r0
        r2 == IF FLt(r1, FNeg(PI)) THEN FAdd(r1, TWO_PI) ELSE r1
    IN  r2

\* ------------------------------------------------------------ core/mod.rs
\* Pendulum::new: the two fields are stored as given.
Pendulum_new(length, mass) == [length |-> length, mass |-> mass]

PendulumConfiguration_new(angle, angular_velocity) ==
    [angle |-> angle, angular_velocity |-> angular_velocity]

DoublePendulumConfiguration_new(a, b) == [a |-> a, b |-> b]

\* DoublePendulumCollection::new: the three fields are stored as given.
DoublePendulumCollection_new(pa, pb, confs) ==
    [pendulum_a |-> pa, pendulum_b |-> pb, pendulum_configurations |-> confs]

\* The outcome of distance: the value returned, or the panic of the first
\* failing assert!.
distance(self, other) ==
    LET angle_distance_a == FAbs(normalize_angle(FSub(self.a.angle, other.a.angle)))
        angle_distance_b == FAbs(normalize_angle(FSub(self.b.angle, other.b.angle)))
        norm_angle_distance_a == FDiv(angle_distance_a, PI)
        norm_angle_distance_b == FDiv(angle_distance_b, PI)
        in_a == FGe(norm_angle_distance_a, 0) /\ FLe(norm_angle_distance_a, SCALE)
        in_b == FGe(norm_angle_distance_b, 0) /\ FLe(norm_angle_distance_b, SCALE)
    IN  IF ~in_a
        THEN [panic |-> TRUE, value |-> norm_angle_distance_a,
              norm_a |-> norm_angle_distance_a, norm_b |-> norm_angle_distance_b]
        ELSE IF ~in_b
        THEN [panic |-> TRUE, value |-> norm_angle_distance_b,
              norm_a |-> norm_angle_distance_a, norm_b |-> norm_angle_distance_b]
        ELSE [panic |-> FALSE,
              value |-> FMul(norm_angle_distance_a, norm_angle_distance_b),
              norm_a |-> norm_angle_distance_a, norm_b |-> norm_angle_distance_b]

\* Faulty variant of angular_accelerations: the gravity term of arm A taken
\* with the cosine of angle_a.
angular_accelerations_gravity_cos(self, pa, pb) ==
    LET mass_a == pa.mass
        mass_b == pb.mass
        angle_a == self.a.angle
        angle_b == self.b.angle
        ang_vel_a == self.a.angular_velocity
        ang_vel_b == self.b.angular_velocity
        len_a == pa.length
        len_b == pb.length
        double_mass_a == FMul(2 * SCALE, mass_a)
        angle_diff == FSub(angle_a, angle_b)
        angle_diff_cos == FCos(angle_diff)
        double_angle_diff_sin == FMul(2 * SCALE, FSin(angle_diff))
        doubled_angles_diff_cos == FCos(FMul(2 * SCALE, angle_diff))
        ang_vel_a_sq == FMul(ang_vel_a, ang_vel_a)
        ang_vel_b_sq == FMul(ang_vel_b, ang_vel_b)
        mass_sum == FAdd(mass_a, mass_b)
        ang_acc_a ==
            FDiv(FSub(FSub(FMul(FMul(FNeg(GRAVITY), FAdd(double_mass_a, mass_b)),
                                FCos(angle_a)),
                           FMul(FMul(mass_b, GRAVITY),
                                FSin(FSub(angle_a, FMul(2 * SCALE, angle_b))))),
                      FMul(FMul(double_angle_diff_sin, mass_b),
                           FAdd(FMul(ang_vel_b_sq, len_b),
                                FMul(FMul(ang_vel_a_sq, len_a), angle_diff_cos)))),
                 FMul(len_a,
                      FSub(FAdd(double_mass_a, mass_b),
                           FMul(mass_b, doubled_angles_diff_cos))))
        ang_acc_b ==
            FDiv(FMul(double_angle_diff_sin,
                      FAdd(FAdd(FMul(FMul(ang_vel_a_sq, len_a), mass_sum),
                                FMul(FMul(GRAVITY, mass_sum), FCos(angle_a))),
                           FMul(FMul(FMul(ang_vel_b_sq, len_b), mass_b),
                                angle_diff_cos))),
                 FMul(len_b,
                      FSub(FAdd(FMul(2 * SCALE, mass_a), mass_b),
                           FMul(mass_b, doubled_angles_diff_cos))))
    IN  <<ang_acc_a, ang_acc_b>>

\* The pair <<ang_acc_a, ang_acc_b>>.
angular_accelerations(self, pa, pb) ==
    LET mass_a == pa.mass
        mass_b == pb.mass
        angle_a == self.a.angle
        angle_b == self.b.angle
        ang_vel_a == self.a.angular_velocity
        ang_vel_b == self.b.angular_velocity
        len_a == pa.length
        len_b == pb.length
        double_mass_a == FMul(2 * SCALE, mass_a)
        angle_diff == FSub(angle_a, angle_b)
        angle_diff_cos == FCos(angle_diff)
        angle_diff_sin == FSin(angle_diff)
        double_angle_diff_sin == FMul(2 * SCALE, angle_diff_sin)
        double_angle_diff == FMul(2 * SCALE, angle_diff)
        doubled_angles_diff_cos == FCos(double_angle_diff)
        ang_vel_a_sq == FMul(ang_vel_a, ang_vel_a)
        ang_vel_b_sq == FMul(ang_vel_b, ang_vel_b)
        mass_sum == FAdd(mass_a, mass_b)
        ang_acc_a ==
            FDiv(FSub(FSub(FMul(FMul(FNeg(GRAVITY), FAdd(double_mass_a, mass_b)),
                                FSin(angle_a)),
                           FMul(FMul(mass_b, GRAVITY),
                                FSin(FSub(angle_a, FMul(2 * SCALE, angle_b))))),
                      FMul(FMul(double_angle_diff_sin, mass_b),
                           FAdd(FMul(ang_vel_b_sq, len_b),
                                FMul(FMul(ang_vel_a_sq, len_a), angle_diff_cos)))),
                 FMul(len_a,
                      FSub(FAdd(double_mass_a, mass_b),
                           FMul(mass_b, doubled_angles_diff_cos))))
        ang_acc_b ==
            FDiv(FMul(double_angle_diff_sin,
                      FAdd(FAdd(FMul(FMul(ang_vel_a_sq, len_a), mass_sum),
                                FMul(FMul(GRAVITY, mass_sum), FCos(angle_a))),
                           FMul(FMul(FMul(ang_vel_b_sq, len_b), mass_b),
                                angle_diff_cos))),
                 FMul(len_b,
                      FSub(FAdd(FMul(2 * SCALE, mass_a), mass_b),
                           FMul(mass_b, doubled_angles_diff_cos))))
    IN  <<ang_acc_a, ang_acc_b>>

\* DoublePendulumConfiguration::step: the configuration after the step.
\* secs is duration.as_secs_f64().
step(self, pa, pb, secs) ==
    LET acc == angular_accelerations(self, pa, pb)
        vel_a == FAdd(self.a.angular_velocity, FMul(acc[1], secs))
        vel_b == FAdd(self.b.angular_velocity, FMul(acc[2], secs))
        angle_a == FAdd(self.a.angle, FMul(vel_a, secs))
        angle_b == FAdd(self.b.angle, FMul(vel_b, secs))
    IN  [a |-> [angle |-> normalize_angle(angle_a), angular_velocity |-> vel_a],
         b |-> [angle |-> normalize_angle(angle_b), angular_velocity |-> vel_b]]

\* ------------------------------------------------------------ bounds
\* Most trajectories in a population.
MaxPendulums == 2
\* Size of the worker pool that runs par_iter_mut().for_each: the most elements
\* that are being stepped at the same time.
MaxWorkers == 2
\* Largest n passed to step_all_n_times.
MaxN == 2
\* Most integration steps applied to the population over a run.
MaxSteps == 2
\* Largest |k| in the shifts by k * TWO_PI given to normalize_angle.
MaxK == 2

\* ------------------------------------------------------------ inputs
UnitPendulum == Pendulum_new(SCALE, SCALE)

\* The arguments of DoublePendulumCollection::new: a valid pair, and pairs with
\* a zero or negative length or mass.
ParamInputs ==
    { <<Pendulum_new(2 * SCALE, SCALE), Pendulum_new(SCALE, 2 * SCALE)>>,
      <<Pendulum_new(0, SCALE), Pendulum_new(SCALE, -SCALE)>>,
      <<Pendulum_new(-SCALE, SCALE), Pendulum_new(SCALE, 0)>> }

\* Initial configurations: the one of main, rest, and one with arm A on the
\* lower boundary of the range and arm B outside the range.
ConfInputs ==
    { DoublePendulumConfiguration_new(
          PendulumConfiguration_new(PI, PI \div 2),
          PendulumConfiguration_new(PI - 3 * SCALE, PI \div 4)),
      DoublePendulumConfiguration_new(
          PendulumConfiguration_new(0, 0),
          PendulumConfiguration_new(0, 0)),
      DoublePendulumConfiguration_new(
          PendulumConfiguration_new(-PI, 0),
          PendulumConfiguration_new(10 * SCALE, SCALE)) }

\* Hanging straight down: both angles 0 and both angular velocities 0.
Rest ==
    DoublePendulumConfiguration_new(PendulumConfiguration_new(0, 0),
                                    PendulumConfiguration_new(0, 0))

\* Pairs of pendulums with positive lengths and masses: the valid pair of
\* ParamInputs, unit pendulums, the pendulums of main at a hundredth of their
\* size, a pair with a mass so large that GRAVITY times the masses exceeds the
\* largest finite number, and a pair with a length and masses so small that
\* length times mass rounds to zero.
PositiveParamInputs ==
    { <<Pendulum_new(2 * SCALE, SCALE), Pendulum_new(SCALE, 2 * SCALE)>>,
      <<UnitPendulum, UnitPendulum>>,
      <<Pendulum_new(180, 10), Pendulum_new(162, 1)>>,
      <<Pendulum_new(SCALE, 30 * SCALE), UnitPendulum>>,
      <<Pendulum_new(1, 1), Pendulum_new(SCALE, 1)>> }

ConfSeqs == UNION { [1..k -> ConfInputs] : k \in 1..MaxPendulums }

\* Durations, as seconds in units of 1/SCALE: 0 s and 0.05 s.
StepTimeInputs == {0, 5}

\* Arguments of normalize_angle: every value within three turns of 0.
AngleInputs == (-3 * TWO_PI)..(3 * TWO_PI)

\* ------------------------------------------------------------ state
VARIABLES
    pendulum_a,               \* DoublePendulumCollection.pendulum_a
    pendulum_b,               \* DoublePendulumCollection.pendulum_b
    pendulum_configurations,  \* DoublePendulumCollection.pendulum_configurations
    pc,         \* the caller: "idle", "running" (inside a batch call), "panicked"
    call,       \* the batch call in progress or last returned: op, step_time, n
    unclaimed,  \* indices no worker has taken yet in the call in progress
    left,       \* per index: iterations its worker has still to run (0: no worker)
    entry,      \* the configurations when the call in progress was entered
    constructed,\* the collection as DoublePendulumCollection::new returned it
    hist,       \* the step times of the steps applied so far, in order
    ret,        \* the outcome of the last pure call (distance, normalize_angle, step)
    step_frame, \* DoublePendulumConfiguration::step run statement by statement
    main_frame  \* main_loop: its position, its locals and what it has called

vars == <<pendulum_a, pendulum_b, pendulum_configurations, pc, call, unclaimed,
          left, entry, constructed, hist, ret, step_frame, main_frame>>

collection == <<pendulum_a, pendulum_b, pendulum_configurations>>
batch == <<call, unclaimed, left, entry, hist>>
frames == <<step_frame, main_frame>>

NoCall == [op |-> "none", step_time |-> 0, n |-> 0]
NoRet == [op |-> "none"]
NoFrame == [at |-> "none"]
Indices == 1..Len(pendulum_configurations)

\* The elements that a worker is stepping.
InProgress == {i \in Indices : left[i] > 0}

\* The state after DoublePendulumCollection::new(pa, pb, confs).
Init ==
    \E p \in ParamInputs, confs \in ConfSeqs :
        LET c == DoublePendulumCollection_new(p[1], p[2], confs)
        IN  /\ pendulum_a = c.pendulum_a
            /\ pendulum_b = c.pendulum_b
            /\ pendulum_configurations = c.pendulum_configurations
            /\ constructed = c
            /\ entry = c.pendulum_configurations
            /\ pc = "idle"
            /\ call = NoCall
            /\ unclaimed = {}
            /\ left = [i \in 1..Len(confs) |-> 0]
            /\ hist = << >>
            /\ ret = NoRet
            /\ step_frame = NoFrame
            /\ main_frame = NoFrame

\* ------------------------------------------------------------ batch calls
\* Faulty variant of Iterations: a loop that tests its count after the body.
IterationsAtLeastOnce(c) ==
    IF c.op = "step_all" THEN 1 ELSE IF c.n = 0 THEN 1 ELSE c.n

\* How often the closure given to for_each steps its trajectory.
Iterations(c) == IF c.op = "step_all" THEN 1 ELSE c.n

\* Faulty variants of for_each_body: a step that takes arm B from the next
\* element, a step that also steps the next element, and a step whose result
\* is stored at the mirrored index.
for_each_body_reads_next(confs, i, pa, pb, secs) ==
    LET j == (i % Len(confs)) + 1
    IN  [confs EXCEPT ![i] = step([a |-> confs[i].a, b |-> confs[j].b], pa, pb, secs)]

for_each_body_writes_next(confs, i, pa, pb, secs) ==
    LET j == (i % Len(confs)) + 1
        one == [confs EXCEPT ![i] = step(confs[i], pa, pb, secs)]
    IN  [one EXCEPT ![j] = step(one[j], pa, pb, secs)]

for_each_body_mirrored(confs, i, pa, pb, secs) ==
    [confs EXCEPT ![Len(confs) + 1 - i] = step(confs[i], pa, pb, secs)]

\* The closure given to for_each, run once on element i of the vector.
for_each_body(confs, i, pa, pb, secs) ==
    [confs EXCEPT ![i] = step(confs[i], pa, pb, secs)]

\* step_all(step_time) is entered: par_iter_mut() hands out every element.
step_all(step_time) ==
    /\ pc = "idle"
    /\ Len(hist) + 1 <= MaxSteps
    /\ pc' = "running"
    /\ call' = [op |-> "step_all", step_time |-> step_time, n |-> 1]
    /\ unclaimed' = Indices
    /\ entry' = pendulum_configurations
    /\ ret' = NoRet
    /\ UNCHANGED <<collection, left, constructed, frames, hist>>

\* step_all_n_times(step_time, n) is entered.
step_all_n_times(step_time, n) ==
    /\ pc = "idle"
    /\ Len(hist) + n <= MaxSteps
    /\ pc' = "running"
    /\ call' = [op |-> "step_all_n_times", step_time |-> step_time, n |-> n]
    /\ unclaimed' = Indices
    /\ entry' = pendulum_configurations
    /\ ret' = NoRet
    /\ UNCHANGED <<collection, left, constructed, frames, hist>>

\* A free worker takes an element that no worker has taken; with no iteration
\* to run it is through with the element at once.
Claim(i) ==
    /\ pc = "running"
    /\ Cardinality(InProgress) < MaxWorkers
    /\ i \in unclaimed
    /\ unclaimed' = unclaimed \ {i}
    /\ left' = [left EXCEPT ![i] = Iterations(call)]
    /\ UNCHANGED <<collection, pc, call, entry, constructed, frames, hist, ret>>

\* The worker on element i runs one pendulum.step(pendulum_a, pendulum_b,
\* step_time); after the last one it is through with the element.
Iterate(i) ==
    /\ pc = "running"
    /\ i \in InProgress
    /\ pendulum_configurations' =
           for_each_body(pendulum_configurations, i, pendulum_a, pendulum_b,
                         call.step_time)
    /\ left' = [left EXCEPT ![i] = @ - 1]
    /\ UNCHANGED <<pendulum_a, pendulum_b, pc, call, unclaimed, entry,
                   constructed, frames, hist, ret>>

\* for_each returns once every element has been processed; the call returns.
Return ==
    /\ pc = "running"
    /\ unclaimed = {}
    /\ InProgress = {}
    /\ pc' = "idle"
    /\ hist' = hist \o [k \in 1..Iterations(call) |-> call.step_time]
    /\ UNCHANGED <<collection, call, unclaimed, left, entry, constructed, frames, ret>>

\* distance(self, other) on a trajectory and its successor in the vector (as
\* render_frame of the image renderer calls it) or on a trajectory and itself;
\* a failing assert! aborts the program.
Distance(i, j) ==
    /\ pc = "idle"
    /\ j \in {i, i + 1}
    /\ LET d == distance(pendulum_configurations[i], pendulum_configurations[j])
       IN  /\ ret' = [op |-> "distance", self |-> i, other |-> j, out |-> d]
           /\ pc' = IF d.panic THEN "panicked" ELSE "idle"
    /\ UNCHANGED <<collection, call, unclaimed, left, entry, constructed, frames, hist>>

Next ==
    \/ \E dt \in StepTimeInputs : step_all(dt)
    \/ \E dt \in StepTimeInputs, n \in 0..MaxN : step_all_n_times(dt, n)
    \/ \E i \in Indices : Claim(i)
    \/ \E i \in Indices : Iterate(i)
    \/ Return
    \/ \E i \in Indices, j \in Indices : Distance(i, j)

Spec == Init /\ [][Next]_vars

\* ------------------------------------------------------------ step, by statement
\* DoublePendulumConfiguration::step run one statement at a time on self.
\* step_frame.at names the statement to run next; pre is the configuration
\* that step was called on.
StepParamInputs ==
    ParamInputs \cup { <<UnitPendulum, UnitPendulum>>,
                       <<Pendulum_new(180, 10), Pendulum_new(162, 1)>> }

InitStep ==
    LET c == DoublePendulumCollection_new(UnitPendulum, UnitPendulum, << >>)
    IN  /\ pendulum_a = c.pendulum_a
        /\ pendulum_b = c.pendulum_b
        /\ pendulum_configurations = c.pendulum_configurations
        /\ constructed = c
        /\ entry = c.pendulum_configurations
        /\ pc = "idle"
        /\ call = NoCall
        /\ unclaimed = {}
        /\ left = << >>
        /\ hist = << >>
        /\ ret = NoRet
        /\ step_frame = NoFrame
        /\ main_frame = NoFrame

\* step is entered: let (ang_acc_a, ang_acc_b) =
\* self.angular_accelerations(pendulum_a, pendulum_b); let secs = ...
StepCall(conf, p, secs) ==
    /\ step_frame = NoFrame
    /\ LET acc == angular_accelerations(conf, p[1], p[2])
       IN  step_frame' = [at |-> "velocity_a", self |-> conf, pre |-> conf,
                          pendulum_a |-> p[1], pendulum_b |-> p[2],
                          ang_acc_a |-> acc[1], ang_acc_b |-> acc[2],
                          secs |-> secs]
    /\ UNCHANGED <<collection, pc, batch, constructed, ret, main_frame>>

\* self.a.angular_velocity += ang_acc_a * secs;
StepVelocityA ==
    /\ step_frame.at = "velocity_a"
    /\ step_frame' =
           [step_frame EXCEPT
               !.self.a.angular_velocity =
                   FAdd(@, FMul(step_frame.ang_acc_a, step_frame.secs)),
               !.at = "velocity_b"]
    /\ UNCHANGED <<collection, pc, batch, constructed, ret, main_frame>>

\* self.b.angular_velocity += ang_acc_b * secs;
StepVelocityB ==
    /\ step_frame.at = "velocity_b"
    /\ step_frame' =
           [step_frame EXCEPT
               !.self.b.angular_velocity =
                   FAdd(@, FMul(step_frame.ang_acc_b, step_frame.secs)),
               !.at = "angle_a"]
    /\ UNCHANGED <<collection, pc, batch, constructed, ret, main_frame>>

\* Faulty variant of StepAngleA: the angle advanced by the angular velocity
\* that arm A had before the step.
StepAngleA_old_velocity ==
    /\ step_frame.at = "angle_a"
    /\ step_frame' =
           [step_frame EXCEPT
               !.self.a.angle =
                   FAdd(@, FMul(step_frame.pre.a.angular_velocity,
                                step_frame.secs)),
               !.at = "angle_b"]
    /\ UNCHANGED <<collection, pc, batch, constructed, ret, main_frame>>

\* self.a.angle += self.a.angular_velocity * secs;
StepAngleA ==
    /\ step_frame.at = "angle_a"
    /\ step_frame' =
           [step_frame EXCEPT
               !.self.a.angle =
                   FAdd(@, FMul(step_frame.self.a.angular_velocity,
                                step_frame.secs)),
               !.at = "angle_b"]
    /\ UNCHANGED <<collection, pc, batch, constructed, ret, main_frame>>

\* self.b.angle += self.b.angular_velocity * secs;
StepAngleB ==
    /\ step_frame.at = "angle_b"
    /\ step_frame' =
           [step_frame EXCEPT
               !.self.b.angle =
                   FAdd(@, FMul(step_frame.self.b.angular_velocity,
                                step_frame.secs)),
               !.at = "normalize_a"]
    /\ UNCHANGED <<collection, pc, batch, constructed, ret, main_frame>>

\* normalize_angle_mut(&mut self.a.angle);
StepNormalizeA ==
    /\ step_frame.at = "normalize_a"
    /\ step_frame' = [step_frame EXCEPT !.self.a.angle = normalize_angle(@),
                                        !.at = "normalize_b"]
    /\ UNCHANGED <<collection, pc, batch, constructed, ret, main_frame>>

\* normalize_angle_mut(&mut self.b.angle); and step returns.
StepNormalizeB ==
    /\ step_frame.at = "normalize_b"
    /\ step_frame' = [step_frame EXCEPT !.self.b.angle = normalize_angle(@),
                                        !.at = "done"]
    /\ UNCHANGED <<collection, pc, batch, constructed, ret, main_frame>>

NextStep ==
    \/ \E conf \in ConfInputs, p \in StepParamInputs, secs \in StepTimeInputs :
           StepCall(conf, p, secs)
    \/ StepVelocityA
    \/ StepVelocityB
    \/ StepAngleA
    \/ StepAngleB
    \/ StepNormalizeA
    \/ StepNormalizeB

SpecStep == InitStep /\ [][NextStep]_vars

\* ------------------------------------------------------------ main_loop
\* Most passes through the loop of main_loop that go on to step.
MaxFrames == 2

\* The two implementations of Renderer.
RendererInputs == {"sdl2", "image"}

\* target_step, in units of 1/SCALE seconds.
TargetStepInputs == {5}

\* Values of last_step.elapsed(): below and above target_step.
ElapsedInputs == {0, 10}

Duration_min(a, b) == IF a <= b THEN a ELSE b

\* The population that main builds: the initial configuration with arm B's
\* angle moved by one unit of resolution per trajectory.
MainPopulation ==
    [i \in 1..MaxPendulums |->
        DoublePendulumConfiguration_new(
            PendulumConfiguration_new(PI, PI \div 2),
            PendulumConfiguration_new(FAdd(PI - 3 * SCALE, i - 1), PI \div 4))]

\* main_loop is entered with a renderer, target_step and
\* target_steps_per_render on a collection. requested is the quit request that
\* before_calc will find (RUNNING stored false by the Ctrl-C handler, or a Quit
\* or Escape event in the SDL queue); checks, batches and renders count the
\* calls of before_calc, step_all_n_times and render_frame; saves counts the
\* save tasks of the image renderer that are still in the thread pool, and
\* exited tells that one of them has ended the process.
InitMain ==
    \E p \in ParamInputs, renderer \in RendererInputs,
       target_step \in TargetStepInputs, n \in 0..MaxN :
        LET c == DoublePendulumCollection_new(p[1], p[2], MainPopulation)
        IN  /\ pendulum_a = c.pendulum_a
            /\ pendulum_b = c.pendulum_b
            /\ pendulum_configurations = c.pendulum_configurations
            /\ constructed = c
            /\ entry = c.pendulum_configurations
            /\ pc = "idle"
            /\ call = NoCall
            /\ unclaimed = {}
            /\ left = [i \in 1..Len(MainPopulation) |-> 0]
            /\ hist = << >>
            /\ ret = NoRet
            /\ step_frame = NoFrame
            /\ main_frame = [at |-> "before_calc", renderer |-> renderer,
                             target_step |-> target_step,
                             target_steps_per_render |-> n,
                             step_time |-> 0, render_iterations |-> 0,
                             requested |-> FALSE, requested_in_batch |-> FALSE,
                             broke |-> FALSE, checks |-> 0, batches |-> 0,
                             renders |-> 0, rendered |-> << >>,
                             saves |-> 0, exited |-> FALSE,
                             result |-> "none", snapshot |-> "none"]

\* The user asks to quit: the Ctrl-C handler stores false in RUNNING, or SDL
\* queues a Quit or Escape event. It can happen at any time, also while a
\* batch call is running or while main_loop sleeps.
MainRequestQuit ==
    /\ main_frame.at \in {"before_calc", "step", "batch", "sleep"}
    /\ ~main_frame.exited
    /\ ~main_frame.requested
    /\ main_frame' = [main_frame EXCEPT !.requested = TRUE,
                                        !.requested_in_batch = (pc = "running")]
    /\ UNCHANGED <<collection, pc, batch, constructed, ret, step_frame>>

\* Faulty variant of MainBeforeCalc: Break is seen but the loop is not left.
MainBeforeCalc_no_break ==
    /\ main_frame.at = "before_calc"
    /\ ~main_frame.exited
    /\ main_frame.render_iterations < MaxFrames
    /\ main_frame' = [main_frame EXCEPT !.checks = @ + 1,
                                        !.broke = main_frame.requested,
                                        !.at = "step"]
    /\ UNCHANGED <<collection, pc, batch, constructed, ret, step_frame>>

\* The head of the loop: before_calc() is called; on Break the loop is left.
MainBeforeCalc ==
    /\ main_frame.at = "before_calc"
    /\ ~main_frame.exited
    /\ main_frame.requested \/ main_frame.render_iterations < MaxFrames
    /\ main_frame' = [main_frame EXCEPT !.checks = @ + 1,
                                        !.broke = main_frame.requested,
                                        !.at = IF main_frame.requested
                                               THEN "report" ELSE "step"]
    /\ UNCHANGED <<collection, pc, batch, constructed, ret, step_frame>>

\* step_time = min(last_step.elapsed(), target_step), and the call
\* pendulums.step_all_n_times(step_time, target_steps_per_render) is entered.
MainStepAllNTimes(elapsed) ==
    /\ main_frame.at = "step"
    /\ ~main_frame.exited
    /\ pc = "idle"
    /\ LET step_time == Duration_min(elapsed, main_frame.target_step)
       IN  /\ main_frame' = [main_frame EXCEPT !.step_time = step_time,
                                               !.batches = @ + 1,
                                               !.at = "batch"]
           /\ call' = [op |-> "step_all_n_times", step_time |-> step_time,
                       n |-> main_frame.target_steps_per_render]
    /\ pc' = "running"
    /\ unclaimed' = Indices
    /\ entry' = pendulum_configurations
    /\ ret' = NoRet
    /\ UNCHANGED <<collection, left, constructed, hist, step_frame>>

\* Width and height that main gives to ImageRenderer::new.
ImageSize == 1080

\* i32::MAX.
I32_MAX == 2147483647

\* The cast `as i32` of a floating-point value: NaN gives 0, an infinity the
\* nearest end of the range, a finite value is truncated toward zero.
AsI32(v) ==
    IF IsNaN(v) THEN 0
    ELSE IF v = PosInf THEN I32_MAX
    ELSE IF v = NegInf THEN -I32_MAX - 1
    ELSE Sgn(v) * (Abs(v) \div SCALE)

\* DoublePendulumConfiguration::a_position: the end of arm A.
a_position(conf, pend_a) ==
    [x |-> FMul(pend_a.length, FSin(conf.a.angle)),
     y |-> FMul(FNeg(pend_a.length), FCos(conf.a.angle))]

\* DoublePendulumConfiguration::positions: the ends of arm A and of arm B,
\* the second being a_position + b_offset.
positions(conf, pend_a, pend_b) ==
    LET a == a_position(conf, pend_a)
    IN  <<a,
          [x |-> FAdd(a.x, FMul(pend_b.length, FSin(conf.b.angle))),
           y |-> FAdd(a.y, FMul(FNeg(pend_b.length), FCos(conf.b.angle)))]>>

\* midpoint of the image renderer, the same in x and y: half the image size.
midpoint == (ImageSize * SCALE) \div 2

\* midpoint_point, the first corner of every polygon.
midpoint_point == <<AsI32(midpoint), AsI32(midpoint)>>

\* conversion_constant = (minimum_rel_max as f64 / max_extension) * 0.95.
conversion_constant(pend_a, pend_b) ==
    FMul(FDiv(midpoint, FAdd(pend_a.length, pend_b.length)),
         (95 * SCALE) \div 100)

\* The sign of angle.sin() and of angle.cos() for a finite angle. f64::sin is
\* 0 only at 0 and f64::cos is never 0, because no f64 other than 0 is a
\* multiple of PI / 2: the sine of the f64 PI is 1.2e-16, not 0.
SinSign(x) ==
    IF x = 0 THEN 0
    ELSE IF (x * FINE) % (2 * PI_FINE) < PI_FINE THEN 1 ELSE -1

CosSign(x) ==
    IF (x * FINE + (PI_FINE \div 2)) % (2 * PI_FINE) < PI_FINE THEN 1 ELSE -1

\* conversion_constant * v for a coordinate v of sign s. A coordinate too
\* small for the resolution here is 0 here and not 0 in f64, where an
\* infinite conversion_constant times it is an infinity of its sign, not NaN.
Scaled(c, v, s) ==
    IF IsInf(c) /\ v = 0 /\ s # 0
    THEN (IF Sgn(c) * s > 0 THEN PosInf ELSE NegInf)
    ELSE FMul(c, v)

\* a_point of a trajectory: convert_point(a_position), that is
\* (conversion_constant * x + midpoint, conversion_constant * -y + midpoint),
\* each coordinate cast to i32. The casts to f32 in between keep 24 bits,
\* finer than 1/SCALE for every finite magnitude here.
a_point(conf, pend_a, pend_b) ==
    LET c == conversion_constant(pend_a, pend_b)
        pos == a_position(conf, pend_a)
        known == pend_a.length # 0 /\ IsFinite(conf.a.angle)
        sx == IF known THEN Sgn(pend_a.length) * SinSign(conf.a.angle) ELSE 0
        sy == IF known THEN Sgn(pend_a.length) * CosSign(conf.a.angle) ELSE 0
    IN  <<AsI32(FAdd(Scaled(c, pos.x, sx), midpoint)),
          AsI32(FAdd(Scaled(c, FNeg(pos.y), sy), midpoint))>>

\* Some corner that render_frame hands to draw_polygon_mut has a coordinate
\* that was not finite before its cast to i32, so that the corner lies at an
\* end of the range of i32 or at 0. What imageproc does with such corners is
\* not part of its contract: it may draw or panic.
CornersNotFinite ==
    LET c == conversion_constant(pendulum_a, pendulum_b)
    IN  \E i \in Indices :
            /\ i + 1 \in Indices
            /\ \E j \in {i, i + 1}, k \in 1..2 :
                   LET pt == positions(pendulum_configurations[j],
                                       pendulum_a, pendulum_b)[k]
                   IN  ~IsFinite(FMul(c, pt.x)) \/ ~IsFinite(FMul(c, pt.y))

\* render_frame of the image renderer goes through every trajectory and its
\* successor: it calls distance, where one failing assert! aborts the
\* program, and then imageproc's draw_polygon_mut on midpoint_point, the two
\* points of the trajectory, and b_point and a_point of the successor; that
\* function panics when the first and the last point are equal.
RenderPanics ==
    /\ main_frame.renderer = "image"
    /\ \E i \in Indices :
           /\ i + 1 \in Indices
           /\ \/ distance(pendulum_configurations[i],
                          pendulum_configurations[i + 1]).panic
              \/ a_point(pendulum_configurations[i + 1],
                         pendulum_a, pendulum_b) = midpoint_point

\* The ways a call of render_frame ends: it returns Ok(()), it returns an
\* error, or it panics.
RenderOutcomes == {"ok", "err", "panic"}

\* The batch call has returned: renderer.render_frame(pendulums)? is called.
\* The image renderer panics in distance or in draw_polygon_mut, or returns
\* Ok(()) after it has handed the saving of the frame to the thread pool
\* (rayon::spawn_fifo); on corners that are not finite imageproc may do
\* either. The SDL renderer returns Ok(()) or the error of draw_lines or
\* draw_points, which main_loop passes on with the ? operator.
MainRenderFrame(outcome) ==
    /\ main_frame.at = "batch"
    /\ ~main_frame.exited
    /\ pc = "idle"
    /\ CASE outcome = "ok" -> ~RenderPanics
         [] outcome = "err" -> main_frame.renderer = "sdl2"
         [] outcome = "panic" ->
                \/ RenderPanics
                \/ main_frame.renderer = "image" /\ CornersNotFinite
    /\ main_frame' =
           [main_frame EXCEPT
               !.renders = @ + 1,
               !.rendered = pendulum_configurations,
               !.saves = IF main_frame.renderer = "image" /\ outcome = "ok"
                         THEN @ + 1 ELSE @,
               !.result = IF outcome = "err" THEN "Err" ELSE @,
               !.at = CASE outcome = "ok" -> "sleep"
                        [] outcome = "err" -> "returned"
                        [] outcome = "panic" -> "panicked"]
    /\ UNCHANGED <<collection, pc, batch, constructed, ret, step_frame>>

\* The rest of the pass after render_frame returned Ok(()): the timing report,
\* thread::sleep, and render_iterations += 1. The products of the timing
\* report (render_iterations * target_steps_per_render in u32, Duration * u32)
\* stay far below their overflow within MaxFrames and MaxN.
MainEndPass ==
    /\ main_frame.at = "sleep"
    /\ ~main_frame.exited
    /\ main_frame' = [main_frame EXCEPT !.render_iterations = @ + 1,
                                        !.at = "before_calc"]
    /\ UNCHANGED <<collection, pc, batch, constructed, ret, step_frame>>

\* The process of main is still running: it has not panicked, not been ended
\* by exit, and main has not returned.
MainAlive ==
    /\ main_frame.at \in {"before_calc", "step", "batch", "sleep", "report",
                          "returned"}
    /\ ~main_frame.exited
    /\ ~(main_frame.at = "returned"
          /\ (main_frame.result = "Err" \/ main_frame.snapshot # "none"))

\* A save task of the image renderer runs in the thread pool: buffer.0.save
\* succeeds, or it fails and the task calls std::process::exit(-1), which ends
\* the process wherever main_loop and the workers of a batch call are.
SaveTask(ok) ==
    /\ MainAlive
    /\ main_frame.saves > 0
    /\ main_frame' = [main_frame EXCEPT !.saves = @ - 1, !.exited = ~ok]
    /\ pc' = IF ok THEN pc ELSE "exited"
    /\ UNCHANGED <<collection, batch, constructed, ret, step_frame>>

\* After the loop: the report divides cumulative_calc_time by
\* render_iterations (Duration / u32 panics on a zero divisor), then Ok(()).
MainReport ==
    /\ main_frame.at = "report"
    /\ ~main_frame.exited
    /\ main_frame' =
           IF main_frame.render_iterations = 0
           THEN [main_frame EXCEPT !.at = "panicked"]
           ELSE [main_frame EXCEPT !.at = "returned", !.result = "Ok"]
    /\ UNCHANGED <<collection, pc, batch, constructed, ret, step_frame>>

\* Back in main after Ok(()): the collection is serialized and written to
\* out/last_abort.json; a failure is returned as the error of main.
MainSnapshot(ok) ==
    /\ main_frame.at = "returned"
    /\ ~main_frame.exited
    /\ main_frame.result = "Ok"
    /\ main_frame.snapshot = "none"
    /\ main_frame' = [main_frame EXCEPT
                          !.snapshot = IF ok THEN "written" ELSE "failed"]
    /\ UNCHANGED <<collection, pc, batch, constructed, ret, step_frame>>

NextMain ==
    \/ MainRequestQuit
    \/ MainBeforeCalc
    \/ \E elapsed \in ElapsedInputs : MainStepAllNTimes(elapsed)
    \/ \E i \in Indices : Claim(i)
    \/ \E i \in Indices : Iterate(i)
    \/ Return
    \/ \E outcome \in RenderOutcomes : MainRenderFrame(outcome)
    \/ MainEndPass
    \/ \E ok \in BOOLEAN : SaveTask(ok)
    \/ MainReport
    \/ \E ok \in BOOLEAN : MainSnapshot(ok)

SpecMain == InitMain /\ [][NextMain]_vars

\* ------------------------------------------------------------ reference runs
\* The vector after one whole step_all(secs) call.
StepAllResult(confs, pa, pb, secs) ==
    [i \in DOMAIN confs |-> step(confs[i], pa, pb, secs)]

\* The vector after k step_all(secs) calls in sequence.
RECURSIVE StepAllTimes(_, _, _, _, _)
StepAllTimes(confs, pa, pb, secs, k) ==
    IF k = 0 THEN confs
    ELSE StepAllTimes(StepAllResult(confs, pa, pb, secs), pa, pb, secs, k - 1)

\* One configuration after k steps of secs.
RECURSIVE StepTimes(_, _, _, _, _)
StepTimes(conf, pa, pb, secs, k) ==
    IF k = 0 THEN conf
    ELSE StepTimes(step(conf, pa, pb, secs), pa, pb, secs, k - 1)

\* One configuration after the steps of a sequence of step times.
RECURSIVE StepsOver(_, _, _, _)
StepsOver(conf, pa, pb, times) ==
    IF times = << >> THEN conf
    ELSE StepsOver(step(conf, pa, pb, Head(times)), pa, pb, Tail(times))

\* The closure run k times on element i.
RECURSIVE RunItem(_, _, _, _, _, _)
RunItem(confs, i, pa, pb, secs, k) ==
    IF k = 0 THEN confs
    ELSE RunItem(for_each_body(confs, i, pa, pb, secs), i, pa, pb, secs, k - 1)

\* The vector after a single worker has processed elements i, i + 1, ... in
\* index order, k iterations each.
RECURSIVE InOrder(_, _, _, _, _, _)
InOrder(confs, i, pa, pb, secs, k) ==
    IF i > Len(confs) THEN confs
    ELSE InOrder(RunItem(confs, i, pa, pb, secs, k), i + 1, pa, pb, secs, k)

\* ------------------------------------------------------------ pure calls
\* The state before any collection is used: an empty population.
InitUtil ==
    LET c == DoublePendulumCollection_new(UnitPendulum, UnitPendulum, << >>)
    IN  /\ pendulum_a = c.pendulum_a
        /\ pendulum_b = c.pendulum_b
        /\ pendulum_configurations = c.pendulum_configurations
        /\ constructed = c
        /\ entry = c.pendulum_configurations
        /\ pc = "idle"
        /\ call = NoCall
        /\ unclaimed = {}
        /\ left = << >>
        /\ hist = << >>
        /\ ret = NoRet
        /\ step_frame = NoFrame
        /\ main_frame = NoFrame

\* normalize_angle is called on x, on x + k * TWO_PI, and on its own result.
\* (One pure call per run: its outcome does not depend on earlier calls.)
Normalize(x, k) ==
    /\ ret = NoRet
    /\ LET shifted == FAdd(x, FMul(k * SCALE, TWO_PI))
       IN  ret' = [op |-> "normalize_angle", x |-> x, k |-> k, shifted |-> shifted,
                   value |-> normalize_angle(x),
                   value_shifted |-> normalize_angle(shifted),
                   twice |-> normalize_angle(normalize_angle(x))]
    /\ UNCHANGED <<collection, pc, batch, constructed, frames>>

\* DoublePendulumConfiguration::step is called on a configuration with a step
\* time, and then again on the result with Duration::ZERO.
StepTwice(conf, p, secs) ==
    /\ ret = NoRet
    /\ LET once == step(conf, p[1], p[2], secs)
       IN  ret' = [op |-> "step", conf |-> conf, params |-> p, secs |-> secs,
                   once |-> once,
                   again |-> step(once, p[1], p[2], 0)]
    /\ UNCHANGED <<collection, pc, batch, constructed, frames>>

\* angular_accelerations is called on the configuration at rest, and step is
\* called on it k times with the same step time.
Equilibrium(p, secs, k) ==
    /\ ret = NoRet
    /\ ret' = [op |-> "equilibrium", params |-> p, secs |-> secs, k |-> k,
               acc |-> angular_accelerations(Rest, p[1], p[2]),
               after |-> StepTimes(Rest, p[1], p[2], secs, k)]
    /\ UNCHANGED <<collection, pc, batch, constructed, frames>>

NextUtil ==
    \/ \E x \in AngleInputs, k \in (-MaxK)..MaxK : Normalize(x, k)
    \/ \E conf \in ConfInputs, p \in ParamInputs, secs \in StepTimeInputs :
           StepTwice(conf, p, secs)
    \/ \E p \in PositiveParamInputs, secs \in StepTimeInputs, k \in 1..MaxSteps :
           Equilibrium(p, secs, k)

SpecUtil == InitUtil /\ [][NextUtil]_vars

\* Iterations already run on element i by the call in progress.
Progress(i) ==
    IF pc # "running" THEN 0
    ELSE IF i \in unclaimed THEN 0
    ELSE Iterations(call) - left[i]

\* Element i has been processed completely by the call in progress.
Done(i) == pc = "running" /\ i \notin unclaimed /\ left[i] = 0

Returned == pc = "idle" /\ call.op # "none"

Angles(conf) == {conf.a.angle, conf.b.angle}

\* Both pendulums of the collection have positive length and positive mass.
ValidParameters ==
    /\ FGt(pendulum_a.length, 0) /\ FGt(pendulum_a.mass, 0)
    /\ FGt(pendulum_b.length, 0) /\ FGt(pendulum_b.mass, 0)

\* ------------------------------------------------------------ claims
\* C1: when step_all_n_times(dt, n) returns, n = 0 included, every trajectory is
\* in exactly the state that n step_all(dt) calls in sequence give from the
\* population the call was entered with.
BatchedEqualsSequential ==
    (Returned /\ call.op = "step_all_n_times") =>
        pendulum_configurations =
            StepAllTimes(entry, pendulum_a, pendulum_b, call.step_time, call.n)

\* C1 witness: a step_all_n_times call with n >= 2 and a positive step time has
\* returned on two trajectories and has moved them.
BatchedWitness ==
    /\ Returned
    /\ call.op = "step_all_n_times"
    /\ call.n >= 2
    /\ call.step_time > 0
    /\ Len(pendulum_configurations) >= 2
    /\ \A i \in Indices : pendulum_configurations[i] # entry[i]

\* C2: whatever the workers and their interleaving, an element whose processing
\* is complete, and the whole vector when the call returns, has the state that
\* a single worker going through the vector in index order produces.
ParallelEqualsOneWorker ==
    LET one == InOrder(entry, 1, pendulum_a, pendulum_b, call.step_time,
                       Iterations(call))
    IN  /\ Returned => pendulum_configurations = one
        /\ \A i \in Indices : Done(i) => pendulum_configurations[i] = one[i]

\* C2 witness: two workers are inside a call at once, out of index order: the
\* worker on the second element is ahead of the worker on the first.
ParallelWitness ==
    /\ pc = "running"
    /\ Len(pendulum_configurations) >= 2
    /\ {1, 2} \subseteq InProgress
    /\ left[2] < left[1]
    /\ pendulum_configurations[2] # entry[2]

\* C3: at every moment of a call and when it has returned, the state of element
\* i is the state it had when the call was entered, stepped as often as element
\* i has been stepped, with the two shared pendulums and the step time: it
\* depends on nothing else, and no step on another element changes it.
TrajectoriesIndependent ==
    call.op # "none" =>
        \A i \in Indices :
            pendulum_configurations[i] =
                StepTimes(entry[i], pendulum_a, pendulum_b, call.step_time,
                          IF pc = "running" THEN Progress(i) ELSE Iterations(call))

\* C3 witness: inside a call, two elements that entered in different states
\* have been stepped a different number of times.
IndependentWitness ==
    /\ pc = "running"
    /\ Len(pendulum_configurations) >= 2
    /\ entry[1] # entry[2]
    /\ Progress(1) >= 1
    /\ Progress(2) > Progress(1)
    /\ pendulum_configurations[1] # entry[1]

\* C4 (as claimed): a collection that has been stepped has pendulums of
\* positive length and positive mass, because construction rejects the others.
SteppedOnlyWithPositiveParameters ==
    Len(hist) > 0 => ValidParameters

\* C5 (as claimed, for pendulums of positive length and mass and for the angles
\* that are numbers): after a step both angles are greater than -PI and at most
\* PI.
AnglesHalfOpen ==
    \A i \in Indices :
        (ValidParameters /\ Len(hist) + Progress(i) > 0) =>
            \A x \in Angles(pendulum_configurations[i]) :
                IsNaN(x) \/ (FGt(x, FNeg(PI)) /\ FLe(x, PI))

\* C5 (amended): after a step each angle is NaN or lies in the closed range
\* from -PI to PI.
AnglesClosedOrNaN ==
    \A i \in Indices :
        (Len(hist) + Progress(i) > 0) =>
            \A x \in Angles(pendulum_configurations[i]) :
                IsNaN(x) \/ (FGe(x, FNeg(PI)) /\ FLe(x, PI))

\* C5 witness: a trajectory that started outside the range has been stepped,
\* and one arm of a stepped trajectory is at -PI exactly.
AnglesWitness ==
    /\ pc = "idle"
    /\ Len(hist) > 0
    /\ \E i \in Indices :
           /\ FGt(constructed.pendulum_configurations[i].b.angle, PI)
           /\ pendulum_configurations[i].a.angle = FNeg(PI)

\* C6 (as claimed): normalize_angle(x + k * TWO_PI) equals normalize_angle(x).
NormalizePeriodic ==
    ret.op = "normalize_angle" => ret.value_shifted = ret.value

\* C6 (amended): normalize_angle(x + k * TWO_PI) equals normalize_angle(x)
\* unless x is an odd multiple of PI; there each of the two results is PI for a
\* positive argument and -PI for a negative one.
NormalizePeriodicOffBoundary ==
    ret.op = "normalize_angle" =>
        IF Abs(ret.x) % TWO_PI = PI
        THEN /\ ret.value = Sgn(ret.x) * PI
             /\ ret.value_shifted = Sgn(ret.shifted) * PI
        ELSE ret.value_shifted = ret.value

\* C6 witness: PI shifted down by one turn: the results are PI and -PI.
NormalizePeriodicWitness ==
    /\ ret.op = "normalize_angle"
    /\ ret.x = PI
    /\ ret.k = -1
    /\ ret.value = PI
    /\ ret.value_shifted = FNeg(PI)

\* C7 (as claimed): normalize_angle applied to its own result returns it
\* unchanged, and a step of Duration::ZERO on a configuration that a step has
\* produced leaves both angles as they are.
NormalizeIdempotent ==
    /\ ret.op = "normalize_angle" => ret.twice = ret.value
    /\ ret.op = "step" =>
           /\ ret.again.a.angle = ret.once.a.angle
           /\ ret.again.b.angle = ret.once.b.angle

\* C8 (as claimed): distance returns a value from 0 to 1 without failing an
\* assertion, and 0 for a trajectory and itself.
DistanceInUnitRange ==
    ret.op = "distance" =>
        /\ ~ret.out.panic
        /\ FGe(ret.out.value, 0) /\ FLe(ret.out.value, SCALE)
        /\ (ret.self = ret.other => ret.out.value = 0)

\* C9 (as claimed): a per-arm normalized distance outside 0..1 does not abort
\* the program.
DistanceViolationRecoverable ==
    (/\ ret.op = "distance"
     /\ \/ ~(FGe(ret.out.norm_a, 0) /\ FLe(ret.out.norm_a, SCALE))
        \/ ~(FGe(ret.out.norm_b, 0) /\ FLe(ret.out.norm_b, SCALE)))
        => pc # "panicked"

\* C10: the two pendulums and the number of trajectories are as constructed,
\* and between calls the trajectory at index i is the one constructed at index
\* i, stepped with the step times of all the steps so far, in order.
FrameStable ==
    /\ pendulum_a = constructed.pendulum_a
    /\ pendulum_b = constructed.pendulum_b
    /\ Len(pendulum_configurations) = Len(constructed.pendulum_configurations)
    /\ pc # "running" =>
           \A i \in Indices :
               pendulum_configurations[i] =
                   StepsOver(constructed.pendulum_configurations[i],
                             pendulum_a, pendulum_b, hist)

\* C10 witness: two calls with different step times have returned on two
\* trajectories constructed in different states, which are still different.
FrameWitness ==
    /\ pc = "idle"
    /\ Len(hist) >= 2
    /\ hist[1] # hist[2]
    /\ Len(pendulum_configurations) >= 2
    /\ constructed.pendulum_configurations[1] # constructed.pendulum_configurations[2]
    /\ pendulum_configurations[1] # pendulum_configurations[2]
    /\ pendulum_configurations # constructed.pendulum_configurations

\* The products that angular_accelerations forms from the parameters alone stay
\* finite, and neither denominator is zero when both angles are 0.
ProductsInRange(p) ==
    LET through == FSub(FAdd(FMul(2 * SCALE, p[1].mass), p[2].mass),
                        FMul(p[2].mass, FCos(0)))
    IN  /\ IsFinite(FMul(GRAVITY, FAdd(FMul(2 * SCALE, p[1].mass), p[2].mass)))
        /\ IsFinite(FMul(GRAVITY, FAdd(p[1].mass, p[2].mass)))
        /\ IsFinite(FMul(p[1].length, through)) /\ FMul(p[1].length, through) # 0
        /\ IsFinite(FMul(p[2].length, through)) /\ FMul(p[2].length, through) # 0

PositiveParameters(p) ==
    /\ FGt(p[1].length, 0) /\ FGt(p[1].mass, 0)
    /\ FGt(p[2].length, 0) /\ FGt(p[2].mass, 0)

\* C11 (as claimed): for any pendulums with positive lengths and masses the
\* configuration at rest has angular accelerations (0, 0), and after any
\* number of steps with any step time it is still at rest.
EquilibriumFixed ==
    (ret.op = "equilibrium" /\ PositiveParameters(ret.params))
        => (ret.acc = <<0, 0>> /\ ret.after = Rest)

\* C11 (amended): the same, for pendulums with positive lengths and masses
\* whose products in angular_accelerations stay finite and whose denominators
\* are not zero.
EquilibriumFixedInRange ==
    (ret.op = "equilibrium" /\ PositiveParameters(ret.params)
                            /\ ProductsInRange(ret.params))
        => (ret.acc = <<0, 0>> /\ ret.after = Rest)

\* C11 witness: the configuration at rest has been stepped more than once with
\* a positive step time, under pendulums of different lengths and masses.
EquilibriumWitness ==
    /\ ret.op = "equilibrium"
    /\ PositiveParameters(ret.params) /\ ProductsInRange(ret.params)
    /\ ret.params[1] # ret.params[2]
    /\ ret.secs > 0 /\ ret.k > 1
    /\ ret.acc = <<0, 0>> /\ ret.after = Rest

\* In every state of main_loop: before_calc has been called once more than
\* step_all_n_times exactly while the loop is between the check and the call;
\* a batch is running only inside the call of step_all_n_times; every batch
\* but one that has not returned has been followed by one render_frame;
\* render_iterations counts the passes whose sleep is over; and the
\* population last rendered is the one the last batch was entered with,
\* stepped target_steps_per_render times with the step time of that batch.
BatchesAndRenders ==
    main_frame.at # "none" =>
        /\ main_frame.checks - main_frame.batches =
               (IF main_frame.at \in {"step", "report"} \/ main_frame.broke
                THEN 1 ELSE 0)
        /\ pc = "running" => main_frame.at = "batch"
        /\ main_frame.batches - main_frame.renders =
               (IF main_frame.at = "batch" THEN 1 ELSE 0)
        /\ main_frame.at \in {"before_calc", "step", "batch", "sleep",
                              "report"} =>
               main_frame.renders - main_frame.render_iterations =
                   (IF main_frame.at = "sleep" THEN 1 ELSE 0)
        /\ (main_frame.renders > 0 /\ main_frame.at # "batch") =>
               main_frame.rendered =
                   StepAllTimes(entry, pendulum_a, pendulum_b,
                                main_frame.step_time,
                                main_frame.target_steps_per_render)

\* In every step of main_loop: before_calc is called and Break is observed
\* only while no batch is running; a batch ends only when every trajectory
\* has been stepped target_steps_per_render times, or with the whole process
\* when a save task of the image renderer calls exit; render_frame is called
\* only on a population that the batch has left fully stepped; and once Break
\* has been returned there is no further call of step_all_n_times or
\* render_frame and the population is not stepped any more.
BreakOnlyBetweenBatches ==
    /\ (main_frame.at # "none" /\ pc = "running") =>
           /\ main_frame.checks' = main_frame.checks
           /\ main_frame.broke' = main_frame.broke
           /\ main_frame.renders' = main_frame.renders
           /\ pc' # "running" =>
                  \/ /\ pc' = "idle"
                     /\ \A i \in Indices :
                            Progress(i) = main_frame.target_steps_per_render
                  \/ main_frame.exited'
    /\ (main_frame.at # "none" /\ main_frame.renders' # main_frame.renders) =>
           /\ main_frame.renders' = main_frame.renders + 1
           /\ pc = "idle"
           /\ pendulum_configurations =
                  StepAllTimes(entry, pendulum_a, pendulum_b,
                               main_frame.step_time,
                               main_frame.target_steps_per_render)
    /\ (main_frame.at # "none" /\ main_frame.broke) =>
           /\ main_frame.batches' = main_frame.batches
           /\ main_frame.renders' = main_frame.renders
           /\ pendulum_configurations' = pendulum_configurations
           /\ pc' # "running"

\* C12 (as claimed): a batch that has started always runs to completion and
\* is followed by one render_frame, so the process never ends inside the call
\* of step_all_n_times or between its return and the call of render_frame;
\* stated for pendulums of positive length and mass and batches of at least
\* one step.
StartedBatchCompletes ==
    (/\ main_frame.at # "none"
     /\ PositiveParameters(<<pendulum_a, pendulum_b>>)
     /\ main_frame.target_steps_per_render > 0
     /\ main_frame.exited)
        => main_frame.at # "batch"

\* C12 (amended): in main_loop the quit check runs exactly once per pass,
\* before step_all_n_times is called; a quit requested while a batch runs or
\* while main_loop sleeps is observed only at the next check; a batch call
\* returns only when every trajectory has been stepped
\* target_steps_per_render times, and what follows it is exactly one
\* render_frame of the fully stepped population; after Break no
\* step_all_n_times or render_frame call happens. A batch ends before it is
\* complete only with the whole process, when a save task of the image
\* renderer calls exit.
CancellationBetweenBatches ==
    /\ []BatchesAndRenders
    /\ [][BreakOnlyBetweenBatches]_vars

\* C12 witness: the quit request arrived while a batch of at least one step
\* was running on more than one trajectory; the batch has been completed and
\* rendered, and Break has been returned at the check after it.
CancellationWitness ==
    /\ main_frame.at = "returned"
    /\ ~main_frame.exited
    /\ main_frame.broke /\ main_frame.requested_in_batch
    /\ main_frame.target_steps_per_render > 0
    /\ Len(pendulum_configurations) > 1
    /\ main_frame.renders = main_frame.batches
    /\ main_frame.batches = main_frame.checks - 1
    /\ main_frame.rendered = pendulum_configurations
    /\ main_frame.rendered # constructed.pendulum_configurations

\* C14: whenever before_calc has returned Break, main_loop does not panic: it
\* returns Ok(()), for every number of completed passes including zero, and
\* main goes on to write the snapshot.
BreakReturnsOk ==
    (main_frame.at # "none" /\ main_frame.broke) =>
        /\ main_frame.at # "panicked"
        /\ main_frame.at = "returned" => main_frame.result = "Ok"

\* The statements of step in their order.
StepRank(at) ==
    CASE at = "velocity_a" -> 1 [] at = "velocity_b" -> 2
      [] at = "angle_a" -> 3 [] at = "angle_b" -> 4
      [] at = "normalize_a" -> 5 [] at = "normalize_b" -> 6
      [] at = "done" -> 7

\* C13: during and after a step, with the angular accelerations of the
\* configuration the step was called on: both accelerations held by the step
\* are those; an angular velocity is the old one until its statement has run
\* and then the old one plus acceleration times dt; an angle is the old one
\* until both velocities have been advanced, then the old one plus the NEW
\* angular velocity times dt, and normalized only at the end; and the
\* configuration that step leaves is the one that the batch calls store.
SemiImplicitEuler ==
    step_frame.at # "none" =>
        LET f == step_frame
            r == StepRank(f.at)
            acc == angular_accelerations(f.pre, f.pendulum_a, f.pendulum_b)
            vel_a == FAdd(f.pre.a.angular_velocity, FMul(acc[1], f.secs))
            vel_b == FAdd(f.pre.b.angular_velocity, FMul(acc[2], f.secs))
            angle_a == FAdd(f.pre.a.angle, FMul(vel_a, f.secs))
            angle_b == FAdd(f.pre.b.angle, FMul(vel_b, f.secs))
        IN  /\ <<f.ang_acc_a, f.ang_acc_b>> = acc
            /\ f.self.a.angular_velocity =
                   (IF r > 1 THEN vel_a ELSE f.pre.a.angular_velocity)
            /\ f.self.b.angular_velocity =
                   (IF r > 2 THEN vel_b ELSE f.pre.b.angular_velocity)
            /\ f.self.a.angle =
                   (IF r > 5 THEN normalize_angle(angle_a)
                    ELSE IF r > 3 THEN angle_a ELSE f.pre.a.angle)
            /\ f.self.b.angle =
                   (IF r > 6 THEN normalize_angle(angle_b)
                    ELSE IF r > 4 THEN angle_b ELSE f.pre.b.angle)
            /\ r = 7 => f.self = step(f.pre, f.pendulum_a, f.pendulum_b, f.secs)

\* C13 witness: a step with a positive step time has returned, under
\* pendulums of positive length and mass; both accelerations were finite and
\* not zero, and both angles differ from the ones that the angular velocities
\* before the step would have given.
SemiImplicitWitness ==
    /\ step_frame.at = "done"
    /\ step_frame.secs > 0
    /\ PositiveParameters(<<step_frame.pendulum_a, step_frame.pendulum_b>>)
    /\ IsFinite(step_frame.ang_acc_a) /\ step_frame.ang_acc_a # 0
    /\ IsFinite(step_frame.ang_acc_b) /\ step_frame.ang_acc_b # 0
    /\ step_frame.self.a.angle #
           normalize_angle(FAdd(step_frame.pre.a.angle,
                                FMul(step_frame.pre.a.angular_velocity,
                                     step_frame.secs)))
    /\ step_frame.self.b.angle #
           normalize_angle(FAdd(step_frame.pre.b.angle,
                                FMul(step_frame.pre.b.angular_velocity,
                                     step_frame.secs)))

====
